---- MODULE Spec2Model ----
(***************************************************************************)
(* Model of nocache_server.py: a socketserver.TCPServer whose request      *)
(* handler, NoCacheHandler, subclasses http.server.SimpleHTTPRequestHandler *)
(* and overrides end_headers.  The inherited methods are modelled as the   *)
(* standard library executes them for this subclass (CPython 3.11).        *)
(*                                                                         *)
(* Abstractions: a request line is its sequence of words; an HTTP version  *)
(* word is [proto, num]; a URL path is [parts, slash]; what is written to  *)
(* the socket is a sequence of items <<"status", code>>, <<"hdr", k, v>>,  *)
(* <<"end">> (the blank line) and <<"body", kind, data>>.                  *)
(***************************************************************************)
EXTENDS Integers, Sequences, FiniteSets, TLC

PORT == 8000

\* Number of client connections made during a run.
MaxConns == 2

(***************************************************************************)
(* The served directory (the process's working directory), read-only.      *)
(***************************************************************************)
FileEntry(data, mtime, readable) ==
    [kind |-> "file", data |-> data, names |-> <<>>, mtime |-> mtime,
     readable |-> readable]

DirEntry(names, readable) ==
    [kind |-> "dir", data |-> <<>>, names |-> names, mtime |-> 0,
     readable |-> readable]

\* names of a directory are in os.listdir order, which is arbitrary
FS ==
    ( <<"foo.txt">>            :> FileEntry(<<70, 79, 79>>, 5, TRUE) ) @@
    ( <<"bar.txt">>            :> FileEntry(<<66, 65>>, 5, TRUE) ) @@
    ( <<"secret.txt">>         :> FileEntry(<<83>>, 5, FALSE) ) @@
    ( <<"subdir">>             :> DirEntry(<<"b", "a.txt">>, TRUE) ) @@
    ( <<"subdir", "a.txt">>    :> FileEntry(<<65>>, 5, TRUE) ) @@
    ( <<"subdir", "b">>        :> DirEntry(<<>>, TRUE) ) @@
    ( <<"site">>               :> DirEntry(<<"index.html">>, TRUE) ) @@
    ( <<"site", "index.html">> :> FileEntry(<<73, 68, 88>>, 5, TRUE) ) @@
    ( <<"locked">>             :> DirEntry(<<"x">>, FALSE) ) @@
    ( <<"locked", "x">>        :> FileEntry(<<88>>, 5, TRUE) )

\* rank of a.lower() among the names above, the key list_directory sorts by
LowerKey(name) ==
    CASE name = "a.txt" -> 1
      [] name = "b" -> 2
      [] name = "index.html" -> 3
      [] OTHER -> 4

isdir(path) == path.parts \in DOMAIN FS /\ FS[path.parts].kind = "dir"

isfile(path) ==
    /\ ~path.slash
    /\ path.parts \in DOMAIN FS
    /\ FS[path.parts].kind = "file"

\* open(path, 'rb') succeeds
CanOpen(path) == isfile(path) /\ FS[path.parts].readable

guess_type(path) ==
    LET name == path.parts[Len(path.parts)]
    IN  CASE name \in {"foo.txt", "bar.txt", "secret.txt", "a.txt"} -> "text/plain"
          [] name = "index.html" -> "text/html"
          [] OTHER -> "application/octet-stream"

\* the URL path is resolved below the working directory, keeping an
\* explicit trailing slash
translate_path(urlpath) == [parts |-> urlpath.parts, slash |-> urlpath.slash]

(***************************************************************************)
(* HTTP versions and the handler object.                                   *)
(***************************************************************************)
Version(proto, num) == [proto |-> proto, num |-> num]

default_request_version == Version("HTTP/", <<0, 9>>)

\* SimpleHTTPRequestHandler leaves BaseHTTPRequestHandler.protocol_version
\* at "HTTP/1.0"; NoCacheHandler does not change it
protocol_version == <<1, 0>>

\* tuple comparison a >= b on pairs
TupleGE(a, b) == a[1] > b[1] \/ (a[1] = b[1] /\ a[2] >= b[2])

NoPath == [parts |-> <<>>, slash |-> FALSE]

\* a fresh handler: nothing parsed, nothing buffered, nothing written
NewHandler ==
    [request_version |-> Version("", <<>>), command |-> "None",
     path |-> NoPath, ims |-> -1, close_connection |-> TRUE,
     headers_buffer |-> <<>>, wfile |-> <<>>]

send_response_only(h, code) ==
    IF h.request_version # default_request_version
    THEN [h EXCEPT !.headers_buffer = Append(@, <<"status", code>>)]
    ELSE h

send_header(h, keyword, value) ==
    LET h1 == IF h.request_version # default_request_version
              THEN [h EXCEPT !.headers_buffer = Append(@, <<"hdr", keyword, value>>)]
              ELSE h
    IN  IF keyword = "Connection"
        THEN [h1 EXCEPT !.close_connection = (value = "close")]
        ELSE h1

flush_headers(h) ==
    [h EXCEPT !.wfile = @ \o h.headers_buffer, !.headers_buffer = <<>>]

\* BaseHTTPRequestHandler.end_headers, reached through super()
Base_end_headers(h) ==
    IF h.request_version # default_request_version
    THEN flush_headers([h EXCEPT !.headers_buffer = Append(@, <<"end">>)])
    ELSE h

\* variant: the override adds nothing
end_headers_Plain(h) == Base_end_headers(h)

\* variant: the three headers are sent in another order
end_headers_Reordered(h) ==
    Base_end_headers(
        send_header(
            send_header(
                send_header(h, "Pragma", "no-cache"),
                "Cache-Control", "no-store, no-cache, must-revalidate, max-age=0"),
            "Expires", "0"))

\* NoCacheHandler.end_headers
end_headers(h) ==
    Base_end_headers(
        send_header(
            send_header(
                send_header(h, "Cache-Control",
                            "no-store, no-cache, must-revalidate, max-age=0"),
                "Pragma", "no-cache"),
            "Expires", "0"))

send_response(h, code) ==
    send_header(
        send_header(send_response_only(h, code), "Server", "version_string"),
        "Date", "date_time_string")

WriteBody(h, kind, data) ==
    [h EXCEPT !.wfile = Append(@, <<"body", kind, data>>)]

send_error(h, code, message) ==
    LET body == <<[code |-> code, message |-> message]>>
        h1 == send_header(send_response(h, code), "Connection", "close")
        h2 == IF code >= 200 /\ code \notin {204, 205, 304}
              THEN send_header(
                       send_header(h1, "Content-Type", "text/html;charset=utf-8"),
                       "Content-Length", Len(body))
              ELSE h1
        h3 == end_headers(h2)
    IN  IF h.command # "HEAD" /\ code >= 200 /\ code \notin {204, 205, 304}
        THEN WriteBody(h3, "error", body)
        ELSE h3

(***************************************************************************)
(* Requests.  A client's input on a connection is one of: nothing yet,     *)
(* part of a request line, end of file, an over-long request line, or a    *)
(* complete request (request line, headers, blank line).                   *)
(***************************************************************************)
Input(kind, words, ims) == [kind |-> kind, words |-> words, ims |-> ims]

Nothing == Input("nothing", <<>>, -1)
Partial == Input("partial", <<>>, -1)

\* BaseHTTPRequestHandler.parse_request: [ok, h]
parse_request(h0, req) ==
    LET words == req.words
        n == Len(words)
        h1 == [h0 EXCEPT !.command = "None",
                         !.request_version = default_request_version,
                         !.close_connection = TRUE]
        version == words[n]
        validVersion == version.proto = "HTTP/" /\ Len(version.num) = 2
        h2 == IF n >= 3
              THEN [h1 EXCEPT !.request_version = version,
                              !.close_connection =
                                  ~(TupleGE(version.num, <<1, 1>>)
                                    /\ TupleGE(protocol_version, <<1, 1>>))]
              ELSE h1
        h3 == IF n = 2 THEN [h2 EXCEPT !.close_connection = TRUE] ELSE h2
        h4 == [h3 EXCEPT !.command = words[1], !.path = words[2], !.ims = req.ims]
    IN  IF n = 0 THEN [ok |-> FALSE, h |-> h1]
        ELSE IF n >= 3 /\ ~validVersion
        THEN [ok |-> FALSE, h |-> send_error(h1, 400, "Bad request version")]
        ELSE IF n >= 3 /\ TupleGE(version.num, <<2, 0>>)
        THEN [ok |-> FALSE, h |-> send_error(h1, 505, "Invalid HTTP version")]
        ELSE IF ~(2 <= n /\ n <= 3)
        THEN [ok |-> FALSE, h |-> send_error(h2, 400, "Bad request syntax")]
        ELSE IF n = 2 /\ words[1] # "GET"
        THEN [ok |-> FALSE, h |-> send_error(h3, 400, "Bad HTTP/0.9 request type")]
        ELSE [ok |-> TRUE, h |-> h4]

None == [open |-> FALSE, kind |-> "none", data |-> <<>>]

FileObject(kind, data) == [open |-> TRUE, kind |-> kind, data |-> data]

RECURSIVE SortByKey(_)
\* list.sort(key=lambda a: a.lower())
SortByKey(names) ==
    IF Len(names) <= 1 THEN names
    ELSE LET m == CHOOSE i \in 1..Len(names) :
                      \A j \in 1..Len(names) : LowerKey(names[i]) <= LowerKey(names[j])
             rest == [k \in 1..(Len(names) - 1) |->
                          IF k < m THEN names[k] ELSE names[k + 1]]
         IN  <<names[m]>> \o SortByKey(rest)

\* variant: subdirectories are listed without their trailing slash and the
\* last name is left out
list_directory_Short(h, path) ==
    LET list == SubSeq(FS[path.parts].names, 1, Len(FS[path.parts].names) - 1)
        encoded == [i \in 1..Len(list) |-> [name |-> list[i], slash |-> FALSE]]
    IN  [f |-> FileObject("listing", encoded),
         h |-> end_headers(
                   send_header(
                       send_header(send_response(h, 200),
                                   "Content-type", "text/html; charset=utf-8"),
                       "Content-Length", Len(encoded)))]

\* SimpleHTTPRequestHandler.list_directory: [f, h]
list_directory(h, path) ==
    IF ~FS[path.parts].readable
    THEN [f |-> None, h |-> send_error(h, 404, "No permission to list directory")]
    ELSE LET list == SortByKey(FS[path.parts].names)
             encoded == [i \in 1..Len(list) |->
                            [name |-> list[i],
                             slash |-> isdir([parts |-> Append(path.parts, list[i]),
                                              slash |-> FALSE])]]
         IN  [f |-> FileObject("listing", encoded),
              h |-> end_headers(
                        send_header(
                            send_header(send_response(h, 200),
                                        "Content-type", "text/html; charset=utf-8"),
                            "Content-Length", Len(encoded)))]

\* the part of send_head after the directory test: [f, h]
send_file_head(h, path) ==
    IF path.slash \/ ~CanOpen(path)
    THEN [f |-> None, h |-> send_error(h, 404, "File not found")]
    ELSE LET fs == FS[path.parts]
         IN  IF h.ims >= 0 /\ fs.mtime <= h.ims
             THEN [f |-> None, h |-> end_headers(send_response(h, 304))]
             ELSE [f |-> FileObject("file", fs.data),
                   h |-> end_headers(
                             send_header(
                                 send_header(
                                     send_header(send_response(h, 200),
                                                 "Content-type", guess_type(path)),
                                     "Content-Length", Len(fs.data)),
                                 "Last-Modified", fs.mtime))]

IndexPath(path, index) == [parts |-> Append(path.parts, index), slash |-> FALSE]

\* SimpleHTTPRequestHandler.send_head: [f, h]
send_head(h) ==
    LET path == translate_path(h.path)
    IN  IF isdir(path)
        THEN IF ~h.path.slash
             THEN [f |-> None,
                   h |-> end_headers(
                             send_header(
                                 send_header(send_response(h, 301),
                                             "Location",
                                             [parts |-> h.path.parts, slash |-> TRUE]),
                                 "Content-Length", 0))]
             ELSE IF isfile(IndexPath(path, "index.html"))
             THEN send_file_head(h, IndexPath(path, "index.html"))
             ELSE IF isfile(IndexPath(path, "index.htm"))
             THEN send_file_head(h, IndexPath(path, "index.htm"))
             ELSE list_directory(h, path)
        ELSE send_file_head(h, path)

\* variant: the file is opened but never copied to the socket
do_GET_NoCopy(h) == send_head(h).h

do_GET(h) ==
    LET r == send_head(h)
    IN  IF r.f.open THEN WriteBody(r.h, r.f.kind, r.f.data) ELSE r.h

do_HEAD(h) == send_head(h).h

\* BaseHTTPRequestHandler.handle_one_request, once readline has returned
handle_one_request(h, req) ==
    IF req.kind = "long"
    THEN send_error([h EXCEPT !.request_version = Version("", <<>>),
                              !.command = ""], 414, "Request-URI Too Long")
    ELSE IF req.kind = "eof"
    THEN [h EXCEPT !.close_connection = TRUE]
    ELSE LET p == parse_request(h, req)
         IN  IF ~p.ok THEN p.h
             ELSE IF p.h.command = "GET" THEN do_GET(p.h)
             ELSE IF p.h.command = "HEAD" THEN do_HEAD(p.h)
             ELSE send_error(p.h, 501, "Unsupported method")

(***************************************************************************)
(* What clients may send.                                                  *)
(***************************************************************************)
UrlPath(parts, slash) == [parts |-> parts, slash |-> slash]

HTTP10 == Version("HTTP/", <<1, 0>>)
HTTP11 == Version("HTTP/", <<1, 1>>)
HTTP20 == Version("HTTP/", <<2, 0>>)
BadVersion == Version("FOO/", <<1, 1>>)

FooTxt == UrlPath(<<"foo.txt">>, FALSE)
BarTxt == UrlPath(<<"bar.txt">>, FALSE)

Paths ==
    {FooTxt, BarTxt,
     UrlPath(<<"foo.txt">>, TRUE),
     UrlPath(<<"secret.txt">>, FALSE),
     UrlPath(<<"subdir">>, FALSE),
     UrlPath(<<"subdir">>, TRUE),
     UrlPath(<<"site">>, TRUE),
     UrlPath(<<"locked">>, TRUE),
     UrlPath(<<"does-not-exist">>, FALSE)}

Line(words) == Input("line", words, -1)

GetRequests == {Line(<<"GET", p, HTTP11>>) : p \in Paths}

HeadRequests ==
    {Line(<<"HEAD", p, HTTP10>>) : p \in {FooTxt, UrlPath(<<"does-not-exist">>, FALSE)}}

\* two-word request lines, the HTTP/0.9 form
SimpleRequests ==
    {Line(<<"GET", p>>) :
        p \in {FooTxt, UrlPath(<<"subdir">>, TRUE), UrlPath(<<"does-not-exist">>, FALSE)}}

\* GET with an If-Modified-Since time before and after the file's mtime
ConditionalRequests == {Input("line", <<"GET", FooTxt, HTTP11>>, t) : t \in {3, 7}}

MalformedRequests ==
    {Line(<<>>),
     Line(<<"GARBAGE">>),
     Line(<<"POST", FooTxt>>),
     Line(<<"GET", FooTxt, BadVersion>>),
     Line(<<"GET", FooTxt, HTTP20>>),
     Line(<<"GET", FooTxt, BadVersion, HTTP11>>),
     Input("long", <<>>, -1)}

\* an unsupported method; closing without sending; resetting the connection
OtherRequests ==
    {Line(<<"POST", FooTxt, HTTP11>>), Input("eof", <<>>, -1), Input("reset", <<>>, -1)}

Requests ==
    GetRequests \cup HeadRequests \cup SimpleRequests \cup ConditionalRequests
        \cup MalformedRequests \cup OtherRequests

\* finish_request: a fresh NoCacheHandler is constructed for the connection
\* and runs handle_one_request on what the client sent
Handled == [r \in Requests |-> handle_one_request(NewHandler, r)]

(***************************************************************************)
(* The process: module-level code, the accept loop, and the clients.       *)
(***************************************************************************)
VARIABLES
    main,       \* where the module-level code is: "start", "bound" (the
                \* TCPServer is constructed), "serving" (in serve_forever),
                \* "crashed" (the constructor raised)
    portFree,   \* whether port PORT can be bound when the process starts
    stdout,     \* lines printed
    conn        \* per connection: st, inp (what the client did), wfile (what
                \* the server wrote to it)

vars == <<main, portFree, stdout, conn>>

Conns == 1..MaxConns

NoConn == [st |-> "none", inp |-> Nothing, wfile |-> <<>>]

StartupLine == <<"Serving at http://localhost:", PORT, " with no-cache headers">>

Init ==
    /\ main = "start"
    /\ portFree \in BOOLEAN
    /\ stdout = <<>>
    /\ conn = [c \in Conns |-> NoConn]

\* line 15, TCPServer(("", PORT), NoCacheHandler): bind and listen succeed
BindOk ==
    /\ main = "start"
    /\ portFree
    /\ main' = "bound"
    /\ UNCHANGED <<portFree, stdout, conn>>

\* variant: the bind error is swallowed and the script goes on
BindFail_Ignored ==
    /\ main = "start"
    /\ ~portFree
    /\ main' = "bound"
    /\ UNCHANGED <<portFree, stdout, conn>>

\* line 15: server_bind raises OSError, which nothing catches
BindFail ==
    /\ main = "start"
    /\ ~portFree
    /\ main' = "crashed"
    /\ UNCHANGED <<portFree, stdout, conn>>

\* variant: the loop is entered without printing
PrintStartup_Silent ==
    /\ main = "bound"
    /\ main' = "serving"
    /\ UNCHANGED <<portFree, stdout, conn>>

\* line 16
PrintStartup ==
    /\ main = "bound"
    /\ stdout' = Append(stdout, StartupLine)
    /\ main' = "serving"
    /\ UNCHANGED <<portFree, conn>>

Handling == {c \in Conns : conn[c].st = "handling"}

Queued == {c \in Conns : conn[c].st = "queued"}

\* a client connects: the kernel completes the handshake on the listening
\* socket and queues the connection; connections are numbered in the order
\* they arrive
Connect(c) ==
    /\ main \in {"bound", "serving"}
    /\ conn[c].st = "none"
    /\ \A d \in Conns : d < c => conn[d].st # "none"
    /\ conn' = [conn EXCEPT ![c].st = "queued"]
    /\ UNCHANGED <<main, portFree, stdout>>

\* a client sends part of a request line, or the rest of its input
Send(c, r) ==
    /\ conn[c].st \in {"queued", "handling"}
    /\ \/ conn[c].inp = Nothing /\ r \in Requests \cup {Partial}
       \/ conn[c].inp = Partial /\ r \in Requests
    /\ conn' = [conn EXCEPT ![c].inp = r]
    /\ UNCHANGED <<main, portFree, stdout>>

\* variant: a connection is accepted while another is still being handled
\* (one worker per connection)
Accept_Threaded(c) ==
    /\ main = "serving"
    /\ conn[c].st = "queued"
    /\ \A d \in Conns : conn[d].st = "queued" => c <= d
    /\ conn' = [conn EXCEPT ![c].st = "handling"]
    /\ UNCHANGED <<main, portFree, stdout>>

\* line 17, serve_forever -> _handle_request_noblock -> get_request: accept
\* the connection at the head of the listen queue
Accept(c) ==
    /\ main = "serving"
    /\ Handling = {}
    /\ c \in Queued
    /\ \A d \in Queued : c <= d
    /\ conn' = [conn EXCEPT ![c].st = "handling"]
    /\ UNCHANGED <<main, portFree, stdout>>

\* variant: an error reply ends the process
HandleRequest_Fatal(c) ==
    /\ main = "serving"
    /\ conn[c].st = "handling"
    /\ conn[c].inp.kind \in {"line", "long", "eof", "reset"}
    /\ LET h == Handled[conn[c].inp]
       IN  /\ conn' = [conn EXCEPT ![c].st = "closed", ![c].wfile = @ \o h.wfile]
           /\ main' = IF \E i \in 1..Len(h.wfile) :
                             h.wfile[i][1] = "body" /\ h.wfile[i][2] = "error"
                      THEN "crashed"
                      ELSE main
    /\ UNCHANGED <<portFree, stdout>>

\* variant: the handler reads the request of the connection that arrived last
HandleRequest_Shared(c) ==
    /\ main = "serving"
    /\ conn[c].st = "handling"
    /\ conn[c].inp.kind \in {"line", "long", "eof", "reset"}
    /\ LET last == CHOOSE d \in Conns :
                       /\ conn[d].inp.kind \in {"line", "long", "eof", "reset"}
                       /\ \A e \in Conns :
                              conn[e].inp.kind \in {"line", "long", "eof", "reset"}
                                  => e <= d
           h == Handled[conn[last].inp]
       IN  conn' = [conn EXCEPT ![c].st = "closed", ![c].wfile = @ \o h.wfile]
    /\ UNCHANGED <<main, portFree, stdout>>

\* variant: end of file on the connection is not noticed
HandleRequest_NoEof(c) ==
    /\ main = "serving"
    /\ conn[c].st = "handling"
    /\ conn[c].inp.kind \in {"line", "long"}
    /\ LET h == Handled[conn[c].inp]
       IN  conn' = [conn EXCEPT ![c].st = "closed", ![c].wfile = @ \o h.wfile]
    /\ UNCHANGED <<main, portFree, stdout>>

\* process_request -> finish_request -> NoCacheHandler(request, ...) ->
\* handle -> handle_one_request, then shutdown_request.  rfile.readline
\* returns only when the client has sent a line or closed: the handler sets
\* no timeout.  An exception from the handler (the peer reset the
\* connection) is caught by _handle_request_noblock.
HandleRequest(c) ==
    /\ main = "serving"
    /\ c \in Handling
    /\ conn[c].inp.kind \in {"line", "long", "eof", "reset"}
    /\ LET h == Handled[conn[c].inp]
       IN  conn' = [conn EXCEPT ![c] =
               IF conn[c].inp.kind = "reset"
               THEN [@ EXCEPT !.st = "closed"]
               ELSE IF h.close_connection
               THEN [@ EXCEPT !.st = "closed", !.wfile = @ \o h.wfile]
               ELSE [@ EXCEPT !.inp = Nothing, !.wfile = @ \o h.wfile]]
    /\ UNCHANGED <<main, portFree, stdout>>

ServerStep ==
    \/ BindOk
    \/ BindFail
    \/ PrintStartup
    \/ \E c \in Conns : Accept(c)
    \/ \E c \in Conns : HandleRequest(c)

ClientStep ==
    \/ \E c \in Conns : Connect(c)
    \/ \E c \in Conns, r \in Requests \cup {Partial} : Send(c, r)

Next == ServerStep \/ ClientStep

Spec == Init /\ [][Next]_vars

\* the server process is scheduled whenever it can run; clients owe nothing
FairSpec == Spec /\ WF_vars(ServerStep)

(***************************************************************************)
(* Vocabulary of the properties.                                           *)
(***************************************************************************)
Closed(c) == conn[c].st = "closed"

Wire(c) == conn[c].wfile

\* the code of the status line a response starts with; 0 when it has none
StatusOf(w) == IF w # <<>> /\ w[1][1] = "status" THEN w[1][2] ELSE 0

HeaderCount(w, k) == Cardinality({i \in 1..Len(w) : w[i][1] = "hdr" /\ w[i][2] = k})

HasHeader(w, k, v) ==
    \E i \in 1..Len(w) : w[i][1] = "hdr" /\ w[i][2] = k /\ w[i][3] = v

HasBody(w, kind, data) ==
    \E i \in 1..Len(w) : w[i][1] = "body" /\ w[i][2] = kind /\ w[i][3] = data

NoBody(w) == \A i \in 1..Len(w) : w[i][1] # "body"

NoCacheNames == {"Cache-Control", "Pragma", "Expires"}

CarriesNoCache(w) ==
    /\ HasHeader(w, "Cache-Control", "no-store, no-cache, must-revalidate, max-age=0")
    /\ HasHeader(w, "Pragma", "no-cache")
    /\ HasHeader(w, "Expires", "0")
    /\ \A k \in NoCacheNames : HeaderCount(w, k) = 1

\* the request line has three words or more and ends in HTTP/1.0 or
\* HTTP/1.1 (or the line is over-long and no version is read at all)
VersionAccepted(r) ==
    \/ r.kind = "long"
    \/ /\ r.kind = "line"
       /\ Len(r.words) >= 3
       /\ r.words[Len(r.words)] \in {HTTP10, HTTP11}

IsGet(r) == r.kind = "line" /\ Len(r.words) \in {2, 3} /\ r.words[1] = "GET"

Target(r) == r.words[2]

\* C1 as claimed: every response written carries the three headers.
C1_EveryResponse ==
    \A c \in Conns : Wire(c) # <<>> => CarriesNoCache(Wire(c))

\* C1 as amended: a response to a request line ending in HTTP/1.0 or
\* HTTP/1.1, or to an over-long one, carries the three headers, each once, with the literal values; any other
\* response is written without status line and without any header.
C1_NoCacheHeaders ==
    \A c \in Conns :
        Wire(c) # <<>> =>
            IF VersionAccepted(conn[c].inp)
            THEN StatusOf(Wire(c)) # 0 /\ CarriesNoCache(Wire(c))
            ELSE \A i \in 1..Len(Wire(c)) : Wire(c)[i][1] = "body"

C1_Witness ==
    \E c, d \in Conns :
        /\ StatusOf(Wire(c)) = 404 /\ CarriesNoCache(Wire(c))
        /\ StatusOf(Wire(d)) = 200 /\ CarriesNoCache(Wire(d))

\* C2: when the port cannot be bound the process ends in the constructor:
\* it never listens, prints nothing, accepts and serves nothing.
C2_BindFailureIsFatal ==
    ~portFree =>
        /\ main \in {"start", "crashed"}
        /\ stdout = <<>>
        /\ \A c \in Conns : conn[c] = NoConn

C2_Witness == main = "crashed" /\ ~portFree

\* C8: the startup line is printed once, after the bind and before the first
\* accept, and never again.
C8_StartupLineOnce ==
    /\ main \in {"start", "bound", "crashed"} => stdout = <<>>
    /\ main = "serving" =>
           stdout = <<<<"Serving at http://localhost:", 8000, " with no-cache headers">>>>
    /\ (\E c \in Conns : conn[c].st \in {"handling", "closed"}) => Len(stdout) = 1

C8_Witness ==
    /\ Len(stdout) = 1
    /\ \A c \in Conns : Closed(c)

\* C9: at most one accepted connection is being handled, and a connection is
\* accepted only when every connection accepted before it is closed.
C9_OneAtATime ==
    /\ [](Cardinality(Handling) <= 1)
    /\ [][\A c \in Conns :
              (conn[c].st # "handling" /\ conn'[c].st = "handling") =>
                  \A d \in Conns \ {c} : conn[d].st \in {"none", "queued", "closed"}]_vars

C9_Witness ==
    \E c, d \in Conns :
        /\ conn[c].st = "handling"
        /\ conn[d].st = "queued" /\ conn[d].inp \in GetRequests

\* the path names nothing, or something the server may not read, or a file
\* with a trailing slash
ErrorTarget(p) ==
    \/ p.parts \notin DOMAIN FS
    \/ ~FS[p.parts].readable
    \/ (FS[p.parts].kind = "file" /\ p.slash)

\* path not found, permission denied, malformed request
PerRequestError(r) ==
    \/ r \in MalformedRequests
    \/ /\ r.kind = "line"
       /\ Len(r.words) \in {2, 3}
       /\ r.words[1] \in {"GET", "HEAD"}
       /\ ErrorTarget(Target(r))

ErrorPages(w) == {i \in 1..Len(w) : w[i][1] = "body" /\ w[i][2] = "error"}

Pending(c) == conn[c].st \in {"queued", "handling"}

Complete(r) == r.kind \in {"line", "long", "eof", "reset"}

PlainGet(r) == r \in {Line(<<"GET", FooTxt, HTTP11>>), Line(<<"GET", BarTxt, HTTP11>>)}

TargetsFile(r) ==
    /\ IsGet(r)
    /\ Target(r).parts \in DOMAIN FS
    /\ FS[Target(r).parts].kind = "file"
    /\ ~Target(r).slash

\* the response is 200 with the content of the file the request names
Served(c) ==
    /\ Closed(c)
    /\ TargetsFile(conn[c].inp)
    /\ StatusOf(Wire(c)) = 200
    /\ HasBody(Wire(c), "file", FS[Target(conn[c].inp).parts].data)
    /\ Cardinality({i \in 1..Len(Wire(c)) : Wire(c)[i][1] = "body"}) = 1

C3_ErrorAnswered(c) ==
    LET r == conn[c].inp
        w == Wire(c)
    IN  IF r = Line(<<>>)
        THEN w = <<>>
        ELSE /\ VersionAccepted(r) => StatusOf(w) >= 400
             /\ ~VersionAccepted(r) => StatusOf(w) = 0
             /\ (r.kind = "line" /\ r.words[1] = "HEAD" /\ VersionAccepted(r))
                    => NoBody(w)
             /\ ~(r.kind = "line" /\ r.words[1] = "HEAD" /\ VersionAccepted(r))
                    => /\ Cardinality(ErrorPages(w)) = 1
                       /\ \A i \in ErrorPages(w) :
                              /\ w[i][3][1].code >= 400
                              /\ StatusOf(w) \in {0, w[i][3][1].code}

IsListingOf(data, parts) ==
    /\ Len(data) = Len(FS[parts].names)
    /\ {data[i].name : i \in 1..Len(data)} =
           {FS[parts].names[i] : i \in 1..Len(FS[parts].names)}
    /\ \A i \in 1..Len(data) :
           data[i].slash = (FS[Append(parts, data[i].name)].kind = "dir")

HasListing(w, parts) ==
    \E i \in 1..Len(w) :
        w[i][1] = "body" /\ w[i][2] = "listing" /\ IsListingOf(w[i][3], parts)

TargetsDir(r) ==
    IsGet(r) /\ Target(r).parts \in DOMAIN FS /\ FS[Target(r).parts].kind = "dir"

HasIndex(parts) ==
    \E n \in {"index.html", "index.htm"} :
        Append(parts, n) \in DOMAIN FS /\ FS[Append(parts, n)].kind = "file"

\* C4 as claimed: a request for an existing directory gets 200 and a listing.
C4_DirectoryAlwaysListed ==
    \A c \in Conns :
        (Closed(c) /\ TargetsDir(conn[c].inp)) =>
            StatusOf(Wire(c)) = 200 /\ HasListing(Wire(c), Target(conn[c].inp).parts)

\* C4 as amended: a GET ending in HTTP/1.0 or HTTP/1.1 for an existing
\* directory gets 301 to the path plus "/" when the path has no trailing
\* slash; with the slash it gets 200 and the listing of the immediate entries
\* as links, provided the directory is readable and holds no index.html or
\* index.htm (an index file is served in place of the listing).
C4_DirectoryListing ==
    \A c \in Conns :
        LET r == conn[c].inp
            w == Wire(c)
        IN  (Closed(c) /\ TargetsDir(r) /\ VersionAccepted(r)) =>
                LET parts == Target(r).parts
                IN  IF ~Target(r).slash
                    THEN /\ StatusOf(w) = 301
                         /\ HasHeader(w, "Location", UrlPath(parts, TRUE))
                         /\ NoBody(w)
                    ELSE IF HasIndex(parts)
                    THEN LET idx == IF isfile(UrlPath(Append(parts, "index.html"), FALSE))
                                    THEN Append(parts, "index.html")
                                    ELSE Append(parts, "index.htm")
                         IN  /\ ~HasListing(w, parts)
                             /\ (FS[idx].readable /\ r.ims < FS[idx].mtime) =>
                                    /\ StatusOf(w) = 200
                                    /\ HasBody(w, "file", FS[idx].data)
                    ELSE FS[parts].readable =>
                             /\ StatusOf(w) = 200
                             /\ HasListing(w, parts)

C4_Witness ==
    \E c \in Conns :
        /\ Closed(c)
        /\ conn[c].inp = Line(<<"GET", UrlPath(<<"subdir">>, TRUE), HTTP11>>)
        /\ HasListing(Wire(c), <<"subdir">>)

\* C5 as claimed: a request for an existing regular file gets 200, a
\* Content-Length and the file's bytes.
C5_FileAlwaysServed ==
    \A c \in Conns :
        (Closed(c) /\ TargetsFile(conn[c].inp)) =>
            /\ StatusOf(Wire(c)) = 200
            /\ HeaderCount(Wire(c), "Content-Length") = 1
            /\ HasBody(Wire(c), "file", FS[Target(conn[c].inp).parts].data)

\* C5 as amended: a GET ending in HTTP/1.0 or HTTP/1.1 for an existing file
\* the server can open, carrying no If-Modified-Since time at or after the
\* file's modification time, gets 200, a Content-Length equal to the file
\* size and a body identical to the file's content.
C5_FileServed ==
    \A c \in Conns :
        LET r == conn[c].inp
            w == Wire(c)
        IN  (Closed(c) /\ TargetsFile(r) /\ VersionAccepted(r)
                 /\ FS[Target(r).parts].readable
                 /\ (r.ims < 0 \/ r.ims < FS[Target(r).parts].mtime)) =>
                /\ StatusOf(w) = 200
                /\ HeaderCount(w, "Content-Length") = 1
                /\ HasHeader(w, "Content-Length", Len(FS[Target(r).parts].data))
                /\ HasBody(w, "file", FS[Target(r).parts].data)
                /\ Cardinality({i \in 1..Len(w) : w[i][1] = "body"}) = 1

C5_Witness ==
    \E c \in Conns :
        /\ Closed(c)
        /\ conn[c].inp = Line(<<"GET", FooTxt, HTTP11>>)
        /\ HasBody(Wire(c), "file", <<70, 79, 79>>)

\* every connection that arrived before d has its input complete
NoStallBefore(d) == \A e \in Conns : e < d => (Closed(e) \/ Complete(conn[e].inp))

C7_HandlingAlwaysFinishes ==
    \A c \in Conns : (conn[c].st = "handling") ~> (Closed(c) /\ Handling = {})

\* C7 as amended: the handling of an accepted connection finishes once the
\* client has sent a complete request, closed or reset the connection; until
\* then the server waits in the read.
C7_HandlingFinishesOnInput ==
    /\ \A c \in Conns :
           (conn[c].st = "handling" /\ Complete(conn[c].inp)) ~> Closed(c)
    /\ [][\A c \in Conns :
              (conn[c].st = "handling" /\ ~Complete(conn[c].inp))
                  => conn'[c].st = "handling"]_vars

C7_Witness ==
    \E c, d \in Conns :
        /\ Closed(c) /\ Wire(c) # <<>>
        /\ conn[d].st = "handling" /\ conn[d].inp = Partial

\* the index of the blank line that ends the header block; 0 when none
EndIndex(w) ==
    IF \E i \in 1..Len(w) : w[i][1] = "end"
    THEN CHOOSE i \in 1..Len(w) : w[i][1] = "end"
    ELSE 0

\* C10: in every header block written, the status line and the base
\* handler's headers come first and untouched, then Cache-Control, Pragma
\* and Expires once each in that order, then the blank line.
C10_OverrideOnlyAdds ==
    \A c \in Conns :
        LET w == Wire(c)
            k == EndIndex(w)
        IN  k # 0 =>
                /\ k >= 7
                /\ Cardinality({i \in 1..Len(w) : w[i][1] = "end"}) = 1
                /\ Cardinality({i \in 1..Len(w) : w[i][1] = "status"}) = 1
                /\ w[1][1] = "status"
                /\ w[2] = <<"hdr", "Server", "version_string">>
                /\ w[3] = <<"hdr", "Date", "date_time_string">>
                /\ \A i \in 2..(k - 4) : w[i][1] = "hdr" /\ w[i][2] \notin NoCacheNames
                /\ w[k - 3] = <<"hdr", "Cache-Control",
                                "no-store, no-cache, must-revalidate, max-age=0">>
                /\ w[k - 2] = <<"hdr", "Pragma", "no-cache">>
                /\ w[k - 1] = <<"hdr", "Expires", "0">>
                /\ \A i \in (k + 1)..Len(w) : w[i][1] = "body"
                /\ (StatusOf(w) = 200 /\ ~NoBody(w)) => HeaderCount(w, "Content-Length") = 1

C10_Witness ==
    \E c \in Conns :
        /\ StatusOf(Wire(c)) = 301
        /\ EndIndex(Wire(c)) = 9
        /\ Wire(c)[4][2] = "Location"

====
